---- MODULE Spec2Model ----
(***************************************************************************)
(* Model of osquery's FSEvents event publisher                             *)
(* (osquery/events/darwin/fsevents.cpp).                                   *)
(*                                                                         *)
(* Strings are sequences of one-character strings, so that prefix search,  *)
(* glob matching and path arithmetic are computed character by character.  *)
(* Native FSEventStream handles are the indices of the sequence `native',  *)
(* which records what the native runtime was asked to do with each handle. *)
(***************************************************************************)
EXTENDS Integers, Sequences, FiniteSets, TLC

VARIABLES
  subscriptions_,   \* the publisher's subscription contexts (vector)
  fs,               \* the filesystem: path -> node
  paths_,           \* std::set<std::string> paths_
  stream_,          \* FSEventStreamRef stream_ (nullptr or a handle)
  stream_started_,  \* bool stream_started_
  run_loop_,        \* CFRunLoopRef run_loop_ (nullptr or the loop)
  native,           \* per created native stream: what was done with it
  runPc,            \* where the run() thread is
  calls,            \* native calls made by the last operation, in order
  lastOp,           \* the last step of the publisher's callers
  repeatedOp,       \* the step before lastOp was the same operation
  batch,            \* the raw event batch handed to Callback
  cbPc,             \* "idle" or "pending" (a batch waits for Callback)
  fired,            \* EventFactory::fire calls of the last Callback, in order
  matched,          \* <<fire index, subscription index>> pairs shouldFire passed
  threadPc,         \* per calling thread: the lifecycle call it is inside
  overlapped        \* a statement ran while the other thread was inside a call

vars == <<subscriptions_, fs, paths_, stream_, stream_started_, run_loop_,
          native, runPc, calls, lastOp, repeatedOp, batch, cbPc, fired, matched,
          threadPc, overlapped>>

pubVars == <<paths_, stream_, stream_started_, run_loop_, native, runPc, calls>>
eventVars == <<batch, cbPc, fired, matched>>
raceVars == <<threadPc, overlapped>>

-----------------------------------------------------------------------------
(* Bounds of the model *)

MaxHandles == 3      \* native streams the runtime can create in one run
MaxSubs == 1         \* subscriptions held at once
MaxBatch == 2        \* raw events in one callback batch
MaxSubLen == 2       \* generated subscription paths: at most this long
MaxPathLen == 2      \* generated event paths: at most this long

-----------------------------------------------------------------------------
(* Program constants *)

FSEVENTS_MAX_SYMLINK_DEPTH == 5

nullptr == 0

\* FSEventStreamEventFlags bits (CoreServices FSEvents.h), UInt32.
kFSEventStreamEventFlagMustScanSubDirs == 1        \* 0x00000001
kFSEventStreamEventFlagRootChanged == 32           \* 0x00000020
kFSEventStreamEventFlagUnmount == 128              \* 0x00000080
kFSEventStreamEventFlagItemCreated == 256          \* 0x00000100
kFSEventStreamEventFlagItemRemoved == 512          \* 0x00000200
kFSEventStreamEventFlagItemInodeMetaMod == 1024    \* 0x00000400
kFSEventStreamEventFlagItemRenamed == 2048         \* 0x00000800
kFSEventStreamEventFlagItemModified == 4096        \* 0x00001000
kFSEventStreamEventFlagItemChangeOwner == 16384    \* 0x00004000
kFSEventStreamEventFlagItemXattrMod == 32768       \* 0x00008000
\* A bit of the flag word that kMaskActions has no entry for.
kFSEventStreamEventFlagItemIsFile == 65536         \* 0x00010000

\* fnmatch(3) results.
FNM_MATCH == 0
FNM_NOMATCH == 1

-----------------------------------------------------------------------------
(* Strings *)

RECURSIVE StringsUpTo(_, _)
StringsUpTo(alphabet, n) ==
  IF n = 0 THEN {<<>>}
  ELSE LET shorter == StringsUpTo(alphabet, n - 1)
       IN  shorter \cup {Append(s, c) : s \in shorter, c \in alphabet}

\* a & b on unsigned integers.
RECURSIVE BitAnd(_, _)
BitAnd(a, b) ==
  IF a = 0 \/ b = 0 THEN 0
  ELSE (a % 2) * (b % 2) + 2 * BitAnd(a \div 2, b \div 2)

\* a | b on unsigned integers.
RECURSIVE BitOr(_, _)
BitOr(a, b) ==
  IF a = 0 THEN b
  ELSE IF b = 0 THEN a
  ELSE (IF a % 2 = 1 \/ b % 2 = 1 THEN 1 ELSE 0) + 2 * BitOr(a \div 2, b \div 2)

\* s begins with p.
IsPrefix(p, s) ==
  /\ Len(p) <= Len(s)
  /\ \A i \in 1..Len(p) : s[i] = p[i]

\* p occurs in s at 0-based offset k.
OccursAt(p, s, k) ==
  /\ k + Len(p) <= Len(s)
  /\ \A i \in 1..Len(p) : s[k + i] = p[i]

\* std::string::find(p) converted to ssize_t: the offset of the first
\* occurrence of p in s, or npos, which the conversion turns into -1.
StringFind(s, p) ==
  LET hits == {k \in 0..Len(s) : OccursAt(p, s, k)}
  IN  IF hits = {} THEN -1
      ELSE CHOOSE k \in hits : \A j \in hits : k <= j

\* FNM_CASEFOLD: the lower-case letter of a character.
Fold(c) ==
  CASE c = "A" -> "a"
    [] c = "T" -> "t"
    [] c = "M" -> "m"
    [] c = "P" -> "p"
    [] OTHER -> c

\* Mutant: fnmatch without FNM_PATHNAME, where '*' and '?' match a slash.
RECURSIVE fnmatch_NoPathname(_, _)
fnmatch_NoPathname(pattern, string) ==
  IF pattern = <<>> THEN
    IF string = <<>> THEN FNM_MATCH ELSE FNM_NOMATCH
  ELSE IF Head(pattern) = "*" THEN
    IF fnmatch_NoPathname(Tail(pattern), string) = FNM_MATCH THEN FNM_MATCH
    ELSE IF string # <<>>
      THEN fnmatch_NoPathname(pattern, Tail(string))
      ELSE FNM_NOMATCH
  ELSE IF Head(pattern) = "?" THEN
    IF string # <<>>
      THEN fnmatch_NoPathname(Tail(pattern), Tail(string))
      ELSE FNM_NOMATCH
  ELSE
    IF string # <<>> /\ Fold(Head(pattern)) = Fold(Head(string))
      THEN fnmatch_NoPathname(Tail(pattern), Tail(string))
      ELSE FNM_NOMATCH

\* fnmatch(pattern, string, FNM_PATHNAME | FNM_CASEFOLD) for patterns made of
\* literals, '?' and '*': a slash in the string is matched only by a slash in
\* the pattern.
RECURSIVE fnmatch(_, _)
fnmatch(pattern, string) ==
  IF pattern = <<>> THEN
    IF string = <<>> THEN FNM_MATCH ELSE FNM_NOMATCH
  ELSE IF Head(pattern) = "*" THEN
    IF fnmatch(Tail(pattern), string) = FNM_MATCH THEN FNM_MATCH
    ELSE IF string # <<>> /\ Head(string) # "/"
      THEN fnmatch(pattern, Tail(string))
      ELSE FNM_NOMATCH
  ELSE IF Head(pattern) = "?" THEN
    IF string # <<>> /\ Head(string) # "/"
      THEN fnmatch(Tail(pattern), Tail(string))
      ELSE FNM_NOMATCH
  ELSE
    IF string # <<>> /\ Fold(Head(pattern)) = Fold(Head(string))
      THEN fnmatch(Tail(pattern), Tail(string))
      ELSE FNM_NOMATCH

-----------------------------------------------------------------------------
(* boost::filesystem *)

\* fs::path::is_absolute() on POSIX: the path has a root directory.
is_absolute(p) == p # <<>> /\ p[1] = "/"

\* fs::path::parent_path(): the path without its last element.
parent_path(p) ==
  LET seps == {i \in 1..Len(p) : p[i] = "/"}
  IN  IF seps = {} THEN <<>>
      ELSE LET k == CHOOSE i \in seps : \A j \in seps : j <= i
           IN  IF k = 1 THEN (IF Len(p) = 1 THEN <<>> ELSE <<"/">>)
               ELSE SubSeq(p, 1, k - 1)

\* fs::path operator/ : append with a separator where one is needed; an empty
\* right-hand side appends nothing.
PathAppend(lhs, rhs) ==
  IF rhs = <<>> THEN lhs
  ELSE IF lhs # <<>> /\ lhs[Len(lhs)] # "/" /\ rhs[1] # "/"
    THEN lhs \o <<"/">> \o rhs
    ELSE lhs \o rhs

\* fs::is_symlink(p, ec): a probe that fails (missing file, permission denied)
\* sets ec and returns false.
is_symlink(f, p) ==
  /\ p \in DOMAIN f
  /\ f[p].kind \in {"link", "unreadable_link"}

\* fs::read_symlink(p, ec): the link's contents; on failure ec is set and the
\* empty path is returned.
read_symlink(f, p) ==
  IF p \in DOMAIN f /\ f[p].kind = "link" THEN f[p].target ELSE <<>>

-----------------------------------------------------------------------------
(* The native runtime *)

\* The calling thread's run loop: one dedicated thread hosts the publisher.
CFRunLoopGetCurrent == 1

\* A stream FSEventStreamCreate has just returned.
NewStream ==
  [scheduled |-> FALSE, started |-> FALSE,
   stops |-> 0, unschedules |-> 0, invalidates |-> 0, releases |-> 0]

\* The native streams that were created and not released.
LiveStreams(nat) == {h \in 1..Len(nat) : nat[h].releases = 0}

\* The publisher's fields as one value, so that one handler can call another.
Pub ==
  [paths_ |-> paths_, stream_ |-> stream_, stream_started_ |-> stream_started_,
   run_loop_ |-> run_loop_, native |-> native, runPc |-> runPc, calls |-> calls]

\* CFRunLoopStop(loop): a loop that is running leaves CFRunLoopRun; a loop that
\* is not running is unaffected.
CFRunLoopStop(s) ==
  [s EXCEPT !.calls = Append(@, <<"CFRunLoopStop", s.run_loop_>>),
            !.runPc = IF @ = "CFRunLoopRun" THEN "stopped" ELSE @]

-----------------------------------------------------------------------------
(* FSEventsEventPublisher: lifecycle *)

\* Mutant: stop() that forgets to clear stream_started_.
stopStream_KeepsStarted(s) ==
  IF s.stream_ # nullptr THEN
    LET h == s.stream_
    IN  [s EXCEPT
          !.native[h] = [@ EXCEPT !.stops = @ + 1, !.started = FALSE,
                                  !.unschedules = @ + 1, !.scheduled = FALSE,
                                  !.invalidates = @ + 1, !.releases = @ + 1],
          !.stream_ = nullptr,
          !.calls = @ \o << <<"FSEventStreamStop", h>>,
                            <<"FSEventStreamUnscheduleFromRunLoop", h>>,
                            <<"FSEventStreamInvalidate", h>>,
                            <<"FSEventStreamRelease", h>> >>]
  ELSE s

\* Mutant: stop() that forgets to null stream_ after the release.
stopStream_KeepsHandle(s) ==
  IF s.stream_ # nullptr THEN
    LET h == s.stream_
    IN  [s EXCEPT
          !.native[h] = [@ EXCEPT !.stops = @ + 1, !.started = FALSE,
                                  !.unschedules = @ + 1, !.scheduled = FALSE,
                                  !.invalidates = @ + 1, !.releases = @ + 1],
          !.stream_started_ = FALSE,
          !.calls = @ \o << <<"FSEventStreamStop", h>>,
                            <<"FSEventStreamUnscheduleFromRunLoop", h>>,
                            <<"FSEventStreamInvalidate", h>>,
                            <<"FSEventStreamRelease", h>> >>]
  ELSE s

\* Mutant: stop() that tears down only a stream that was started.
stopStream_OnlyIfStarted(s) ==
  IF s.stream_ # nullptr /\ s.stream_started_ THEN
    LET h == s.stream_
    IN  [s EXCEPT
          !.native[h] = [@ EXCEPT !.stops = @ + 1, !.started = FALSE,
                                  !.unschedules = @ + 1, !.scheduled = FALSE,
                                  !.invalidates = @ + 1, !.releases = @ + 1],
          !.stream_started_ = FALSE,
          !.stream_ = nullptr,
          !.calls = @ \o << <<"FSEventStreamStop", h>>,
                            <<"FSEventStreamUnscheduleFromRunLoop", h>>,
                            <<"FSEventStreamInvalidate", h>>,
                            <<"FSEventStreamRelease", h>> >>]
  ELSE s

\* stop(), lines 106-115: tear the stream down if there is one.
stopStream(s) ==
  IF s.stream_ # nullptr THEN
    LET h == s.stream_
    IN  [s EXCEPT
          !.native[h] = [@ EXCEPT !.stops = @ + 1, !.started = FALSE,
                                  !.unschedules = @ + 1, !.scheduled = FALSE,
                                  !.invalidates = @ + 1, !.releases = @ + 1],
          !.stream_started_ = FALSE,
          !.stream_ = nullptr,
          !.calls = @ \o << <<"FSEventStreamStop", h>>,
                            <<"FSEventStreamUnscheduleFromRunLoop", h>>,
                            <<"FSEventStreamInvalidate", h>>,
                            <<"FSEventStreamRelease", h>> >>]
  ELSE s

\* Mutant: stop() that tears the stream down and leaves the loop running.
stop_NoLoopStop(s) == stopStream(s)

\* void FSEventsEventPublisher::stop()
stop(s) ==
  LET s1 == stopStream(s)
  IN  IF s1.run_loop_ # nullptr THEN CFRunLoopStop(s1) ELSE s1

\* restart(), lines 76-96: create, schedule and start the stream. createOk and
\* startOk are the outcomes of FSEventStreamCreate and FSEventStreamStart.
createStream(s, createOk, startOk) ==
  IF createOk THEN
    LET h == Len(s.native) + 1
        created == [s EXCEPT
                     !.native = Append(@, [NewStream EXCEPT !.scheduled = TRUE]),
                     !.stream_ = h,
                     !.calls = @ \o << <<"FSEventStreamCreate", h>>,
                                       <<"FSEventStreamScheduleWithRunLoop", h>>,
                                       <<"FSEventStreamStart", h>> >>]
    IN  IF startOk
          THEN [created EXCEPT !.native[h].started = TRUE,
                               !.stream_started_ = TRUE]
          ELSE created
  ELSE [s EXCEPT !.stream_ = nullptr,
                 !.calls = Append(@, <<"FSEventStreamCreate", nullptr>>)]

\* Mutant: restart() without the test for a hosted loop.
restart_NoLoopCheck(s, createOk, startOk) ==
  IF s.paths_ = {} THEN s
  ELSE createStream(stop(s), createOk, startOk)

\* Mutant: restart() that creates the new stream without stopping the old.
restart_NoStop(s, createOk, startOk) ==
  IF s.paths_ = {} THEN s
  ELSE IF s.run_loop_ = nullptr THEN s
  ELSE createStream(s, createOk, startOk)

\* void FSEventsEventPublisher::restart()
restart(s, createOk, startOk) ==
  IF s.paths_ = {} THEN s
  ELSE IF s.run_loop_ = nullptr THEN s
  ELSE createStream(stop(s), createOk, startOk)

\* Mutant: tearDown() that stops the stream but keeps the loop reference.
tearDown_KeepsLoop(s) == stop(s)

\* void FSEventsEventPublisher::tearDown()
tearDown(s) == [stop(s) EXCEPT !.run_loop_ = nullptr]

\* void FSEventsEventPublisher::end()
end(s) == stop(s)

\* Mutant: flush() that tests the handle but not stream_started_.
flush_IgnoresStarted(s, async) ==
  IF s.stream_ # nullptr THEN
    IF async
      THEN [s EXCEPT !.calls = Append(@, <<"FSEventStreamFlushAsync", s.stream_>>)]
      ELSE [s EXCEPT !.calls = Append(@, <<"FSEventStreamFlushSync", s.stream_>>)]
  ELSE s

\* void FSEventsEventPublisher::flush(bool async)
flush(s, async) ==
  IF s.stream_ # nullptr /\ s.stream_started_ THEN
    IF async
      THEN [s EXCEPT !.calls = Append(@, <<"FSEventStreamFlushAsync", s.stream_>>)]
      ELSE [s EXCEPT !.calls = Append(@, <<"FSEventStreamFlushSync", s.stream_>>)]
  ELSE s

\* size_t FSEventsEventPublisher::numSubscriptionedPaths()
numSubscriptionedPaths == Cardinality(paths_)

\* CFRunLoopIsWaiting(loop): the loop's thread sleeps in CFRunLoopRun.
CFRunLoopIsWaiting == runPc = "CFRunLoopRun"

\* bool FSEventsEventPublisher::isStreamRunning()
isStreamRunning ==
  IF stream_ = nullptr \/ ~stream_started_ THEN FALSE
  ELSE IF run_loop_ = nullptr THEN FALSE
  ELSE CFRunLoopIsWaiting

-----------------------------------------------------------------------------
(* FSEventsEventPublisher::configure: symlink resolution *)

\* Mutant: the hop bound tested with <= (one hop too many).
RECURSIVE followLinks_SixHops(_, _, _)
followLinks_SixHops(f, sub, link_depth) ==
  IF link_depth <= FSEVENTS_MAX_SYMLINK_DEPTH THEN
    IF is_symlink(f, sub.path) THEN
      LET link_ == IF Len(sub.link_) = 0 THEN sub.path ELSE sub.link_
          read == read_symlink(f, sub.path)
          source_path == IF ~is_absolute(read)
                           THEN PathAppend(parent_path(link_), read)
                           ELSE read
      IN  followLinks_SixHops(f, [sub EXCEPT !.link_ = link_,
                                             !.path = source_path],
                              link_depth + 1)
    ELSE sub
  ELSE sub

\* Mutant: link_ recorded at every hop, not only while it is still empty.
RECURSIVE followLinks_RewritesLink(_, _, _)
followLinks_RewritesLink(f, sub, link_depth) ==
  IF link_depth < FSEVENTS_MAX_SYMLINK_DEPTH THEN
    IF is_symlink(f, sub.path) THEN
      LET link_ == sub.path
          read == read_symlink(f, sub.path)
          source_path == IF ~is_absolute(read)
                           THEN PathAppend(parent_path(link_), read)
                           ELSE read
      IN  followLinks_RewritesLink(f, [sub EXCEPT !.link_ = link_,
                                                  !.path = source_path],
                                   link_depth + 1)
    ELSE sub
  ELSE sub

\* The while loop of configure(), lines 138-153, for one subscription context,
\* entered with link_depth hops already made.
RECURSIVE followLinks(_, _, _)
followLinks(f, sub, link_depth) ==
  IF link_depth < FSEVENTS_MAX_SYMLINK_DEPTH THEN
    IF is_symlink(f, sub.path) THEN
      LET link_ == IF Len(sub.link_) = 0 THEN sub.path ELSE sub.link_
          read == read_symlink(f, sub.path)
          source_path == IF ~is_absolute(read)
                           THEN PathAppend(parent_path(link_), read)
                           ELSE read
      IN  followLinks(f, [sub EXCEPT !.link_ = link_, !.path = source_path],
                      link_depth + 1)
    ELSE sub
  ELSE sub

\* The subscription contexts after the for loop of configure().
resolveAll(f, subs) == [i \in 1..Len(subs) |-> followLinks(f, subs[i], 0)]

\* void FSEventsEventPublisher::configure(), on the publisher's fields; subs
\* are the subscription contexts as the loop left them.
configure(s, subs, createOk, startOk) ==
  LET s1 == [s EXCEPT !.paths_ = {subs[i].path : i \in 1..Len(subs)}]
  IN  IF s1.paths_ = {} THEN s1
      ELSE restart(s1, createOk, startOk)

-----------------------------------------------------------------------------
(* FSEventsEventPublisher::Callback and the flag-to-action table *)

\* The initializer list of kMaskActions, in source order.
kMaskActionsInit ==
  << <<kFSEventStreamEventFlagItemChangeOwner, "ATTRIBUTES_MODIFIED">>,
     <<kFSEventStreamEventFlagItemXattrMod, "ATTRIBUTES_MODIFIED">>,
     <<kFSEventStreamEventFlagItemInodeMetaMod, "ATTRIBUTES_MODIFIED">>,
     <<kFSEventStreamEventFlagItemCreated, "CREATED">>,
     <<kFSEventStreamEventFlagItemRemoved, "DELETED">>,
     <<kFSEventStreamEventFlagItemModified, "UPDATED">>,
     <<kFSEventStreamEventFlagItemRenamed, "MOVED_TO">>,
     <<kFSEventStreamEventFlagMustScanSubDirs, "COLLISION_WITHIN">>,
     <<kFSEventStreamEventFlagUnmount, "UNMOUNTED">>,
     <<kFSEventStreamEventFlagRootChanged, "ROOT_CHANGED">> >>

\* std::map iteration: the entries by ascending key, the first entry of a key
\* kept.
RECURSIVE MapOrder(_, _)
MapOrder(init, above) ==
  LET keys == {init[i][1] : i \in 1..Len(init)}
      left == {k \in keys : k > above}
  IN  IF left = {} THEN <<>>
      ELSE LET k == CHOOSE x \in left : \A y \in left : x <= y
               i == CHOOSE x \in 1..Len(init) :
                      /\ init[x][1] = k
                      /\ \A y \in 1..Len(init) : init[y][1] = k => x <= y
           IN  <<init[i]>> \o MapOrder(init, k)

\* Mutant: the table iterated in the order it was written.
kMaskActions_SourceOrder == kMaskActionsInit

\* std::map<FSEventStreamEventFlags, std::string> kMaskActions, as iterated.
kMaskActions == MapOrder(kMaskActionsInit, -1)

\* The event context of raw event i of a batch (lines 188-192).
createEventContext(stream, ev) ==
  [fsevent_stream |-> stream, fsevent_flags |-> ev.fsevent_flags,
   transaction_id |-> ev.transaction_id, path |-> ev.path, action |-> ""]

\* Mutant: no fallback fire call when no table bit is set.
eventFires_NoUnknown(ec) ==
  LET hit == SelectSeq(kMaskActions,
                       LAMBDA action : BitAnd(ec.fsevent_flags, action[1]) # 0)
  IN  [j \in 1..Len(hit) |-> [ec EXCEPT !.action = hit[j][2]]]

\* Lines 207-222: the fire calls of one raw event, in order.
eventFires(ec) ==
  LET hit == SelectSeq(kMaskActions,
                       LAMBDA action : BitAnd(ec.fsevent_flags, action[1]) # 0)
      has_action == hit # <<>>
  IN  IF has_action
        THEN [j \in 1..Len(hit) |-> [ec EXCEPT !.action = hit[j][2]]]
        ELSE <<[ec EXCEPT !.action = "UNKNOWN"]>>

\* FSEventsEventPublisher::Callback: the fire calls of a batch, in order.
RECURSIVE Callback(_, _)
Callback(stream, events) ==
  IF events = <<>> THEN <<>>
  ELSE eventFires(createEventContext(stream, Head(events)))
         \o Callback(stream, Tail(events))

-----------------------------------------------------------------------------
(* FSEventsEventPublisher::shouldFire and the dispatcher *)

\* Mutant: the mask test left out.
maskPasses_Always(sc, ec) == TRUE

\* Lines 243-247: the mask test.
maskPasses(sc, ec) ==
  IF sc.mask # 0 /\ BitAnd(ec.fsevent_flags, sc.mask) = 0 THEN FALSE ELSE TRUE

\* Mutant: the recursive test accepts the subscription path anywhere in the
\* event path (found compared with npos instead of 0).
shouldFire_Substring(sc, ec) ==
  IF sc.recursive THEN
    LET found == StringFind(ec.path, sc.path)
    IN  IF found = -1 THEN FALSE ELSE maskPasses(sc, ec)
  ELSE IF fnmatch(sc.path \o <<"*">>, ec.path) # 0 THEN FALSE
  ELSE maskPasses(sc, ec)

\* bool FSEventsEventPublisher::shouldFire(sc, ec)
shouldFire(sc, ec) ==
  IF sc.recursive THEN
    LET found == StringFind(ec.path, sc.path)
    IN  IF found # 0 THEN FALSE ELSE maskPasses(sc, ec)
  ELSE IF fnmatch(sc.path \o <<"*">>, ec.path) # 0 THEN FALSE
  ELSE maskPasses(sc, ec)

\* EventFactory::fire: each fire call is tested against every subscription and
\* the subscriber's callback is invoked where shouldFire passes.
Dispatch(subs, fires) ==
  {<<i, j>> \in (1..Len(fires)) \X (1..Len(subs)) : shouldFire(subs[j], fires[i])}

-----------------------------------------------------------------------------
(* Inputs *)

Link(target) == [kind |-> "link", target |-> target]
Node(kind) == [kind |-> kind, target |-> <<>>]

\* /A -> /B -> /C -> /D -> /E -> /F -> /T, absolute links, /T a file.
FsChain ==
  <<"/", "A">> :> Link(<<"/", "B">>) @@
  <<"/", "B">> :> Link(<<"/", "C">>) @@
  <<"/", "C">> :> Link(<<"/", "D">>) @@
  <<"/", "D">> :> Link(<<"/", "E">>) @@
  <<"/", "E">> :> Link(<<"/", "F">>) @@
  <<"/", "F">> :> Link(<<"/", "T">>) @@
  <<"/", "T">> :> Node("file")

\* /t a directory, /l -> t (relative), /u a link that cannot be read,
\* /x/a -> /y/b (absolute), /y/b -> c (relative, that is /y/c).
FsMixed ==
  <<"/">> :> Node("dir") @@
  <<"/", "t">> :> Node("dir") @@
  <<"/", "l">> :> Link(<<"t">>) @@
  <<"/", "u">> :> Node("unreadable_link") @@
  <<"/", "x">> :> Node("dir") @@
  <<"/", "y">> :> Node("dir") @@
  <<"/", "x", "/", "a">> :> Link(<<"/", "y", "/", "b">>) @@
  <<"/", "y", "/", "b">> :> Link(<<"c">>) @@
  <<"/", "y", "/", "c">> :> Node("file")

\* FsMixed after an administrator re-pointed its links: /t is now a link to
\* /y and /l a plain directory.
FsRelinked ==
  [FsMixed EXCEPT ![<<"/", "t">>] = Link(<<"/", "y">>),
                  ![<<"/", "l">>] = Node("dir")]

\* The filesystems a running system moves between.
FsChanges == {FsMixed, FsRelinked}

FsChoices == {FsChain, FsMixed}

\* The paths a subscription may ask for on filesystem f.
RequestedPaths(f) ==
  IF f = FsChain THEN {<<"/", "A">>, <<"/", "T">>}
  ELSE {<<"/", "t">>, <<"/", "l">>, <<"/", "u">>, <<"/", "x", "/", "a">>}

\* A subscription context as the registry creates it.
createSubscriptionContext(path, recursive, mask) ==
  [path |-> path, link_ |-> <<>>, recursive |-> recursive, mask |-> mask]

-----------------------------------------------------------------------------
(* Calling threads *)

\* The threads that call into the publisher besides the one blocked in
\* CFRunLoopRun(): the publisher takes no lock, so two calls may overlap.
Threads == {"control", "other"}

\* A thread outside every lifecycle call. Inside one, op names the call, pc is
\* the source line of its next statement and reg the value of stream_ the
\* thread last loaded.
Idle == [op |-> "idle", pc |-> 0, reg |-> nullptr]

InitThreads ==
  /\ threadPc = [t \in Threads |-> Idle]
  /\ overlapped = FALSE

-----------------------------------------------------------------------------
(* Lifecycle actions *)

Begin == [Pub EXCEPT !.calls = <<>>]

Returned(op, s) ==
  /\ paths_' = s.paths_
  /\ stream_' = s.stream_
  /\ stream_started_' = s.stream_started_
  /\ run_loop_' = s.run_loop_
  /\ native' = s.native
  /\ runPc' = s.runPc
  /\ calls' = s.calls
  /\ lastOp' = op
  /\ repeatedOp' = (lastOp = op)

\* The outcomes FSEventStreamCreate can have: it fails once the runtime has no
\* stream left to give.
CreateOutcomes == IF Len(native) < MaxHandles THEN BOOLEAN ELSE {FALSE}

AddSubscription(path) ==
  /\ Len(subscriptions_) < MaxSubs
  /\ subscriptions_' =
       Append(subscriptions_, createSubscriptionContext(path, FALSE, 0))
  /\ Returned("addSubscription", Begin)
  /\ UNCHANGED <<fs, eventVars, raceVars>>

RemoveSubscription(i) ==
  /\ i \in 1..Len(subscriptions_)
  /\ subscriptions_' =
       SubSeq(subscriptions_, 1, i - 1)
         \o SubSeq(subscriptions_, i + 1, Len(subscriptions_))
  /\ Returned("removeSubscription", Begin)
  /\ UNCHANGED <<fs, eventVars, raceVars>>

Configure(createOk, startOk) ==
  /\ subscriptions_' = resolveAll(fs, subscriptions_)
  /\ Returned("configure",
              configure(Begin, subscriptions_', createOk, startOk))
  /\ UNCHANGED <<fs, eventVars, raceVars>>

Restart(createOk, startOk) ==
  /\ Returned("restart", restart(Begin, createOk, startOk))
  /\ UNCHANGED <<subscriptions_, fs, eventVars, raceVars>>

Stop ==
  /\ Returned("stop", stop(Begin))
  /\ UNCHANGED <<subscriptions_, fs, eventVars, raceVars>>

End ==
  /\ Returned("end", end(Begin))
  /\ UNCHANGED <<subscriptions_, fs, eventVars, raceVars>>

TearDown ==
  /\ Returned("tearDown", tearDown(Begin))
  /\ UNCHANGED <<subscriptions_, fs, eventVars, raceVars>>

Flush(async) ==
  /\ Returned("flush", flush(Begin, async))
  /\ UNCHANGED <<subscriptions_, fs, eventVars, raceVars>>

\* Status FSEventsEventPublisher::run() up to CFRunLoopRun(), which blocks
\* while a source is scheduled on the loop and returns at once otherwise.
run(s, createOk, startOk) ==
  LET s1 == IF s.run_loop_ = nullptr
              THEN restart([s EXCEPT !.run_loop_ = CFRunLoopGetCurrent],
                           createOk, startOk)
              ELSE s
      sources == {h \in LiveStreams(s1.native) : s1.native[h].scheduled}
  IN  [s1 EXCEPT !.runPc = IF sources # {} THEN "CFRunLoopRun" ELSE "none"]

Run(createOk, startOk) ==
  /\ runPc = "none"
  /\ Returned("run", run(Begin, createOk, startOk))
  /\ UNCHANGED <<subscriptions_, fs, eventVars, raceVars>>

\* CFRunLoopRun() returns after a stop request and run() returns Status(0).
RunReturn ==
  /\ runPc = "stopped"
  /\ Returned("runReturn", [Begin EXCEPT !.runPc = "none"])
  /\ UNCHANGED <<subscriptions_, fs, eventVars, raceVars>>

InitPublisher ==
  /\ paths_ = {}
  /\ stream_ = nullptr
  /\ stream_started_ = FALSE
  /\ run_loop_ = nullptr
  /\ native = <<>>
  /\ runPc = "none"
  /\ calls = <<>>
  /\ lastOp = "init"
  /\ repeatedOp = FALSE

InitEvents ==
  /\ batch = <<>>
  /\ cbPc = "idle"
  /\ fired = <<>>
  /\ matched = {}

Init ==
  /\ subscriptions_ = <<>>
  /\ fs \in FsChoices
  /\ InitPublisher
  /\ InitEvents
  /\ InitThreads

Next ==
  \/ \E path \in RequestedPaths(fs) : AddSubscription(path)
  \/ \E i \in 1..MaxSubs : RemoveSubscription(i)
  \/ \E createOk \in CreateOutcomes, startOk \in BOOLEAN :
       Configure(createOk, startOk)
  \/ \E createOk \in CreateOutcomes, startOk \in BOOLEAN :
       Restart(createOk, startOk)
  \/ \E createOk \in CreateOutcomes, startOk \in BOOLEAN :
       Run(createOk, startOk)
  \/ RunReturn
  \/ Stop
  \/ End
  \/ TearDown
  \/ \E async \in BOOLEAN : Flush(async)

Spec == Init /\ [][Next]_vars

-----------------------------------------------------------------------------
(* Symlinks changing under a running publisher *)

\* The filesystem probed by fs::is_symlink and fs::read_symlink changes
\* between two operations of the publisher; no field of the publisher does.
Relink(f) ==
  /\ f # fs
  /\ fs' = f
  /\ Returned("relink", Begin)
  /\ UNCHANGED <<subscriptions_, eventVars, raceVars>>

InitLinks ==
  /\ subscriptions_ = <<>>
  /\ fs = FsMixed
  /\ InitPublisher
  /\ InitEvents
  /\ InitThreads

\* The operations that read or write the subscriptions' paths, with run() and
\* tearDown() so that configure() meets a publisher with and without a loop.
NextLinks ==
  \/ \E path \in RequestedPaths(fs) : AddSubscription(path)
  \/ \E i \in 1..MaxSubs : RemoveSubscription(i)
  \/ \E createOk \in CreateOutcomes, startOk \in BOOLEAN :
       Configure(createOk, startOk)
  \/ \E createOk \in CreateOutcomes, startOk \in BOOLEAN :
       Run(createOk, startOk)
  \/ RunReturn
  \/ TearDown
  \/ \E f \in FsChanges : Relink(f)

SpecLinks == InitLinks /\ [][NextLinks]_vars

-----------------------------------------------------------------------------
(* Event delivery *)

\* The publisher once one subscription was configured and run() hosts the
\* loop: the state in which the native runtime delivers batches.
InitRunning(sub) ==
  /\ subscriptions_ = <<sub>>
  /\ fs = FsMixed
  /\ paths_ = {sub.path}
  /\ stream_ = 1
  /\ stream_started_ = TRUE
  /\ run_loop_ = CFRunLoopGetCurrent
  /\ native = <<[NewStream EXCEPT !.scheduled = TRUE, !.started = TRUE]>>
  /\ runPc = "CFRunLoopRun"
  /\ calls = <<>>
  /\ lastOp = "run"
  /\ repeatedOp = FALSE
  /\ InitEvents
  /\ InitThreads

\* The native runtime queues a batch of raw events for the callback; the
\* source numbers them in increasing order.
Deliver(events) ==
  /\ cbPc = "idle"
  /\ stream_ # nullptr /\ stream_started_
  /\ batch' = [i \in 1..Len(events) |->
                 [path |-> events[i].path,
                  fsevent_flags |-> events[i].fsevent_flags,
                  transaction_id |-> i]]
  /\ cbPc' = "pending"
  /\ fired' = <<>>
  /\ matched' = {}
  /\ UNCHANGED <<subscriptions_, fs, pubVars, lastOp, repeatedOp, raceVars>>

\* The loop thread runs Callback on the batch; every fire call is dispatched
\* inline.
OnCallback ==
  /\ cbPc = "pending"
  /\ fired' = Callback(stream_, batch)
  /\ matched' = Dispatch(subscriptions_, fired')
  /\ cbPc' = "idle"
  /\ UNCHANGED <<subscriptions_, fs, pubVars, lastOp, repeatedOp, batch,
                 raceVars>>

Event(path, flags) == [path |-> path, fsevent_flags |-> flags]

RECURSIVE SeqsUpTo(_, _)
SeqsUpTo(S, n) ==
  IF n = 0 THEN {<<>>}
  ELSE LET shorter == SeqsUpTo(S, n - 1)
       IN  shorter \cup {Append(s, x) : s \in shorter, x \in S}

pTmp == <<"/", "t", "m", "p">>
pTmpSlash == pTmp \o <<"/">>
pTmpFile == pTmp \o <<"/", "a", ".", "t", "x", "t">>
pTmpUpperFile == <<"/", "T", "M", "P", "/", "a", ".", "t", "x", "t">>
pTmpSibling == pTmp \o <<"x">>
pVarLog == <<"/", "v", "a", "r", "/", "l", "o", "g">>
pDebugLog == pVarLog \o <<"/", "s", "y", "s", "/", "d", "e", "b", "u", "g",
                          ".", "l", "o", "g">>

RemovedOrCreated ==
  BitOr(kFSEventStreamEventFlagItemRemoved, kFSEventStreamEventFlagItemCreated)
MetaAndModified ==
  BitOr(kFSEventStreamEventFlagItemInodeMetaMod,
        kFSEventStreamEventFlagItemModified)

MaskChoices == {0, RemovedOrCreated, kFSEventStreamEventFlagItemModified}

\* Named subscriptions and raw events.
SubChoices ==
  {createSubscriptionContext(p, r, m) :
     p \in {pTmp, pTmpSlash, pVarLog}, r \in BOOLEAN, m \in MaskChoices}

EventChoices ==
  { Event(pTmpFile, kFSEventStreamEventFlagItemCreated),
    Event(pTmpFile, MetaAndModified),
    Event(pTmpFile, 0),
    Event(pTmpUpperFile, BitOr(kFSEventStreamEventFlagItemRenamed,
                               kFSEventStreamEventFlagItemIsFile)),
    Event(pTmpSibling, kFSEventStreamEventFlagItemIsFile),
    Event(pTmp, BitOr(BitOr(kFSEventStreamEventFlagItemChangeOwner,
                            kFSEventStreamEventFlagItemXattrMod),
                      BitOr(kFSEventStreamEventFlagMustScanSubDirs,
                            BitOr(kFSEventStreamEventFlagRootChanged,
                                  kFSEventStreamEventFlagUnmount)))),
    Event(pDebugLog, kFSEventStreamEventFlagItemModified) }

InitEventsSpec == \E sub \in SubChoices : InitRunning(sub)

NextEvents ==
  \/ \E events \in SeqsUpTo(EventChoices, MaxBatch) : Deliver(events)
  \/ OnCallback

SpecEvents == InitEventsSpec /\ [][NextEvents]_vars

\* Every short subscription path against every short event path.
Alphabet == {"/", "a", "A"}

ShortFlagChoices ==
  {0, kFSEventStreamEventFlagItemCreated, kFSEventStreamEventFlagItemModified,
   kFSEventStreamEventFlagItemIsFile}

InitFilterSpec ==
  \E p \in StringsUpTo(Alphabet, MaxSubLen), r \in BOOLEAN, m \in MaskChoices :
    InitRunning(createSubscriptionContext(p, r, m))

NextFilter ==
  \/ \E p \in StringsUpTo(Alphabet, MaxPathLen), flags \in ShortFlagChoices :
       Deliver(<<Event(p, flags)>>)
  \/ OnCallback

SpecFilter == InitFilterSpec /\ [][NextFilter]_vars

-----------------------------------------------------------------------------
(* Lifecycle calls as the statements two threads interleave *)

\* What a native call does to the stream it is given; a call on a handle the
\* runtime never returned (nullptr) touches no stream.
nativeCall(s, name, h) ==
  LET done(r) ==
        CASE name = "FSEventStreamStop" ->
               [r EXCEPT !.stops = @ + 1, !.started = FALSE]
          [] name = "FSEventStreamUnscheduleFromRunLoop" ->
               [r EXCEPT !.unschedules = @ + 1, !.scheduled = FALSE]
          [] name = "FSEventStreamInvalidate" ->
               [r EXCEPT !.invalidates = @ + 1]
          [] name = "FSEventStreamRelease" ->
               [r EXCEPT !.releases = @ + 1]
          [] name = "FSEventStreamScheduleWithRunLoop" ->
               [r EXCEPT !.scheduled = TRUE]
          [] OTHER -> r
  IN  [s EXCEPT !.calls = Append(@, <<name, h>>),
                !.native = IF h \in 1..Len(s.native)
                             THEN [s.native EXCEPT ![h] = done(s.native[h])]
                             ELSE s.native]

\* Where a thread goes on when stop() returns: into restart() after line 74,
\* into tearDown() after line 124, or out of the call.
AfterStop(th) ==
  CASE th.op = "restart" -> [th EXCEPT !.pc = 77]
    [] th.op = "tearDown" -> [th EXCEPT !.pc = 127]
    [] OTHER -> Idle

\* Mutant: stop() whose line 114 does not null stream_.
stopStep_KeepsHandle(s, th, h) ==
  CASE th.pc = 107 ->
         IF s.stream_ # nullptr
           THEN [s |-> s, th |-> [th EXCEPT !.pc = 108, !.reg = s.stream_]]
           ELSE [s |-> s, th |-> [th EXCEPT !.pc = 118]]
    [] th.pc = 108 ->
         [s |-> nativeCall(s, "FSEventStreamStop", h),
          th |-> [th EXCEPT !.pc = 109]]
    [] th.pc = 109 ->
         [s |-> [s EXCEPT !.stream_started_ = FALSE],
          th |-> [th EXCEPT !.pc = 110]]
    [] th.pc = 110 ->
         [s |-> nativeCall(s, "FSEventStreamUnscheduleFromRunLoop", h),
          th |-> [th EXCEPT !.pc = 112]]
    [] th.pc = 112 ->
         [s |-> nativeCall(s, "FSEventStreamInvalidate", h),
          th |-> [th EXCEPT !.pc = 113]]
    [] th.pc = 113 ->
         [s |-> nativeCall(s, "FSEventStreamRelease", h),
          th |-> [th EXCEPT !.pc = 114]]
    [] th.pc = 114 ->
         [s |-> s, th |-> [th EXCEPT !.pc = 118]]
    [] th.pc = 118 ->
         [s |-> IF s.run_loop_ # nullptr THEN CFRunLoopStop(s) ELSE s,
          th |-> AfterStop(th)]

\* stop(), one statement a step; th.pc is the line of the statement and h the
\* value the statement has for stream_.
stopStep(s, th, h) ==
  CASE th.pc = 107 ->
         IF s.stream_ # nullptr
           THEN [s |-> s, th |-> [th EXCEPT !.pc = 108, !.reg = s.stream_]]
           ELSE [s |-> s, th |-> [th EXCEPT !.pc = 118]]
    [] th.pc = 108 ->
         [s |-> nativeCall(s, "FSEventStreamStop", h),
          th |-> [th EXCEPT !.pc = 109]]
    [] th.pc = 109 ->
         [s |-> [s EXCEPT !.stream_started_ = FALSE],
          th |-> [th EXCEPT !.pc = 110]]
    [] th.pc = 110 ->
         [s |-> nativeCall(s, "FSEventStreamUnscheduleFromRunLoop", h),
          th |-> [th EXCEPT !.pc = 112]]
    [] th.pc = 112 ->
         [s |-> nativeCall(s, "FSEventStreamInvalidate", h),
          th |-> [th EXCEPT !.pc = 113]]
    [] th.pc = 113 ->
         [s |-> nativeCall(s, "FSEventStreamRelease", h),
          th |-> [th EXCEPT !.pc = 114]]
    [] th.pc = 114 ->
         [s |-> [s EXCEPT !.stream_ = nullptr],
          th |-> [th EXCEPT !.pc = 118, !.reg = nullptr]]
    [] th.pc = 118 ->
         [s |-> IF s.run_loop_ # nullptr THEN CFRunLoopStop(s) ELSE s,
          th |-> AfterStop(th)]

\* restart() around its call of stop(): the two early returns, then lines
\* 77-96.
restartStep(s, th, h, createOk, startOk) ==
  CASE th.pc = 49 ->
         IF s.paths_ = {} \/ s.run_loop_ = nullptr
           THEN [s |-> s, th |-> Idle]
           ELSE [s |-> s, th |-> [th EXCEPT !.pc = 107]]
    [] th.pc = 77 ->
         IF createOk
           THEN LET new == Len(s.native) + 1
                IN  [s |-> [s EXCEPT
                              !.native = Append(@, NewStream),
                              !.stream_ = new,
                              !.calls = Append(@, <<"FSEventStreamCreate", new>>)],
                     th |-> [th EXCEPT !.pc = 86, !.reg = new]]
           ELSE [s |-> [s EXCEPT
                          !.stream_ = nullptr,
                          !.calls = Append(@, <<"FSEventStreamCreate", nullptr>>)],
                 th |-> [th EXCEPT !.pc = 86, !.reg = nullptr]]
    [] th.pc = 86 ->
         IF h # nullptr
           THEN [s |-> s, th |-> [th EXCEPT !.pc = 88]]
           ELSE [s |-> s, th |-> Idle]
    [] th.pc = 88 ->
         [s |-> nativeCall(s, "FSEventStreamScheduleWithRunLoop", h),
          th |-> [th EXCEPT !.pc = 89]]
    [] th.pc = 89 ->
         LET called == nativeCall(s, "FSEventStreamStart", h)
         IN  IF startOk /\ h \in 1..Len(s.native)
               THEN [s |-> [called EXCEPT !.native[h].started = TRUE],
                     th |-> [th EXCEPT !.pc = 90]]
               ELSE [s |-> called, th |-> Idle]
    [] th.pc = 90 ->
         [s |-> [s EXCEPT !.stream_started_ = TRUE], th |-> Idle]

\* tearDown() after its call of stop(): line 127.
tearDownStep(s, th) ==
  [s |-> [s EXCEPT !.run_loop_ = nullptr], th |-> Idle]

\* flush(false): the test of line 251, then the call of line 255.
flushStep(s, th, h) ==
  CASE th.pc = 251 ->
         IF s.stream_ # nullptr /\ s.stream_started_
           THEN [s |-> s, th |-> [th EXCEPT !.pc = 255, !.reg = s.stream_]]
           ELSE [s |-> s, th |-> Idle]
    [] th.pc = 255 ->
         [s |-> nativeCall(s, "FSEventStreamFlushSync", h), th |-> Idle]

\* The first statement of each call.
Entry(op) ==
  CASE op = "restart" -> 49
    [] op = "flush" -> 251
    [] OTHER -> 107

\* end() is stop() under another name.
LifecycleCalls == {"stop", "tearDown", "restart", "flush"}

\* The next statement of the call th is inside.
statement(s, th, h, createOk, startOk) ==
  IF th.pc \in {107, 108, 109, 110, 112, 113, 114, 118} THEN stopStep(s, th, h)
  ELSE IF th.pc = 127 THEN tearDownStep(s, th)
  ELSE IF th.pc \in {251, 255} THEN flushStep(s, th, h)
  ELSE restartStep(s, th, h, createOk, startOk)

\* The native calls of the last statement that were given a stream already
\* released, a second release among them. (One statement makes at most one
\* call on a stream.)
UsedAfterRelease ==
  {c \in {calls[i] : i \in 1..Len(calls)} :
     /\ c[1] \notin {"CFRunLoopStop", "FSEventStreamCreate"}
     /\ c[2] \in 1..Len(native)
     /\ native[c[2]].releases >= (IF c[1] = "FSEventStreamRelease" THEN 2 ELSE 1)}

\* The native calls of the last statement that were given a null stream.
UsedNull ==
  {c \in {calls[i] : i \in 1..Len(calls)} :
     /\ c[1] \notin {"CFRunLoopStop", "FSEventStreamCreate"}
     /\ c[2] = nullptr}

\* Thread t runs one statement: the first of a call op it enters, or the next
\* of the call it is inside. The threads share the fields without a lock, so
\* the statement sees stream_ as it is now or, when cached, as the thread last
\* loaded it. After a call on a released or null stream the behaviour of the
\* process is undefined and the model follows it no further.
ThreadStep(t, op, cached, createOk, startOk) ==
  LET th == IF threadPc[t] = Idle
              THEN [op |-> op, pc |-> Entry(op), reg |-> nullptr]
              ELSE threadPc[t]
      h == IF cached THEN th.reg ELSE stream_
      after == statement(Begin, th, h, createOk, startOk)
      alone == \A u \in Threads \ {t} : threadPc[u] = Idle
  IN  /\ UsedAfterRelease = {} /\ UsedNull = {}
      /\ threadPc[t] # Idle => op = threadPc[t].op
      /\ cached => th.reg # nullptr /\ th.reg # stream_
      /\ Returned("statement", after.s)
      /\ threadPc' = [threadPc EXCEPT ![t] = after.th]
      /\ overlapped' = IF ~alone THEN TRUE
                       ELSE IF threadPc[t] = Idle THEN FALSE
                       ELSE overlapped
      /\ UNCHANGED <<subscriptions_, fs, eventVars>>

InitRace ==
  InitRunning(createSubscriptionContext(<<"/", "t">>, FALSE, 0))

\* The outcomes of FSEventStreamCreate while two calls overlap: the runtime
\* keeps one stream back.
RaceCreateOutcomes == IF Len(native) < MaxHandles - 1 THEN BOOLEAN ELSE {FALSE}

NextRace ==
  \E t \in Threads, op \in LifecycleCalls, cached \in BOOLEAN,
     createOk \in RaceCreateOutcomes, startOk \in BOOLEAN :
    ThreadStep(t, op, cached, createOk, startOk)

SpecRace == InitRace /\ [][NextRace]_vars

-----------------------------------------------------------------------------
(* Claims about the stream lifecycle *)

Range(q) == {q[i] : i \in 1..Len(q)}

\* The native calls of the last operation that act on a stream handle.
StreamCalls == {c \in Range(calls) : c[1] # "CFRunLoopStop"}

\* C1 as stated: whenever streamHandle is non-null, started is true.
C1_StreamImpliesStarted == stream_ # nullptr => stream_started_

\* C1 as amended: whenever started is true, streamHandle is non-null and names
\* a live native stream that was started; a non-null streamHandle with started
\* false is reachable (FSEventStreamStart failed).
C1_StartedImpliesStream ==
  stream_started_ =>
    /\ stream_ # nullptr
    /\ stream_ \in LiveStreams(native)
    /\ native[stream_].started

C1_Witness ==
  /\ stream_started_
  /\ stream_ # nullptr
  /\ lastOp \in {"configure", "run", "restart"}

\* C2 as stated: after configure() with no subscriptions the path set is
\* empty, isStreamRunning() is false and no native watch exists.
C2_EmptyConfigureStopsWatch ==
  (lastOp = "configure" /\ subscriptions_ = <<>>) =>
    /\ numSubscriptionedPaths = 0
    /\ ~isStreamRunning
    /\ LiveStreams(native) = {}

\* Every stream that was released went through stop, unschedule, invalidate
\* and release exactly once, and no live stream through any of them.
ReleasedExactlyOnce ==
  \A h \in 1..Len(native) :
    IF h \in LiveStreams(native)
      THEN /\ native[h].stops = 0
           /\ native[h].unschedules = 0
           /\ native[h].invalidates = 0
      ELSE /\ native[h].stops = 1
           /\ native[h].unschedules = 1
           /\ native[h].invalidates = 1
           /\ native[h].releases = 1
           /\ ~native[h].scheduled
           /\ ~native[h].started

AfterRestart ==
  /\ lastOp \in {"restart", "configure"}
  /\ paths_ # {}
  /\ run_loop_ # nullptr

\* C3 as stated: after restart() with paths and a loop exactly one native watch
\* exists, the new and active one; earlier ones were released exactly once and
\* two are never live.
C3_RestartLeavesOneActive ==
  /\ Cardinality(LiveStreams(native)) <= 1
  /\ ReleasedExactlyOnce
  /\ AfterRestart =>
       /\ LiveStreams(native) = {stream_}
       /\ stream_ = Len(native)
       /\ stream_started_
       /\ native[stream_].started

\* C3 as amended: after restart() with paths and a loop at most one native
\* watch exists and it is the one this restart created; none exists when
\* native creation failed, and the new one is active exactly when native
\* start succeeded. Earlier watches were stopped, unscheduled, invalidated
\* and released exactly once, and two are never live.
C3_RestartReplaces ==
  /\ Cardinality(LiveStreams(native)) <= 1
  /\ LiveStreams(native) = (IF stream_ = nullptr THEN {} ELSE {stream_})
  /\ ReleasedExactlyOnce
  /\ AfterRestart =>
       IF <<"FSEventStreamCreate", nullptr>> \in Range(calls)
         THEN stream_ = nullptr /\ ~stream_started_
         ELSE /\ stream_ = Len(native)
              /\ <<"FSEventStreamCreate", stream_>> \in Range(calls)
              /\ native[stream_].scheduled
              /\ stream_started_ <=> native[stream_].started

C3_Witness ==
  /\ lastOp = "restart"
  /\ Len(native) >= 2
  /\ stream_ = Len(native)
  /\ stream_started_
  /\ <<"FSEventStreamRelease", stream_ - 1>> \in Range(calls)

\* C4: after stop() streamHandle is null and started is false; a stop() right
\* after a stop() leaves streamHandle, started, loopHandle, watchedPaths and
\* every native stream as they were and makes no call on a stream handle.
C4_StopIdempotent ==
  [][lastOp' = "stop" =>
       /\ stream_' = nullptr
       /\ ~stream_started_'
       /\ lastOp = "stop" =>
            /\ UNCHANGED <<stream_, stream_started_, run_loop_, paths_, native>>
            /\ StreamCalls' = {}]_vars

C4_Witness ==
  /\ lastOp = "stop"
  /\ repeatedOp
  /\ Len(native) >= 1
  /\ run_loop_ # nullptr
  /\ calls = << <<"CFRunLoopStop", run_loop_>> >>

-----------------------------------------------------------------------------
(* Claims about the callback bridge and the subscription filter *)

\* Callback has run on the batch.
CallbackDone == cbPc = "idle" /\ batch # <<>>

\* The entries of the flag-to-action table whose bit is set in flags.
SetEntries(flags) ==
  {e \in Range(kMaskActionsInit) : BitAnd(flags, e[1]) # 0}

\* The place of entry e among the entries of set by ascending bit value.
Rank(e, set) == Cardinality({x \in set : x[1] < e[1]}) + 1

\* The fire calls made for raw event i of the batch, in order.
FiresOf(i) == SelectSeq(fired, LAMBDA ec : ec.transaction_id = i)

Actions(fires) == [j \in 1..Len(fires) |-> fires[j].action]

\* C5: each raw event with table bits set yields one fire call per set table
\* entry, in ascending bit-value order; inode-metadata-change plus
\* content-modified yields ATTRIBUTES_MODIFIED then UPDATED and nothing else;
\* the fire calls of batch index i precede those of index i+1.
C5_FiresInBitOrder ==
  CallbackDone =>
    /\ \A i \in 1..Len(batch) :
         LET set == SetEntries(batch[i].fsevent_flags)
             fires == FiresOf(i)
         IN  /\ set # {} =>
                  /\ Len(fires) = Cardinality(set)
                  /\ \A e \in set : fires[Rank(e, set)].action = e[2]
             /\ batch[i].fsevent_flags = MetaAndModified =>
                  Actions(fires) = <<"ATTRIBUTES_MODIFIED", "UPDATED">>
    /\ \A j, k \in 1..Len(fired) :
         j < k => fired[j].transaction_id <= fired[k].transaction_id
    /\ \A j \in 1..Len(fired) :
         /\ fired[j].transaction_id \in 1..Len(batch)
         /\ fired[j].path = batch[fired[j].transaction_id].path
         /\ fired[j].fsevent_flags = batch[fired[j].transaction_id].fsevent_flags

C5_Witness ==
  /\ CallbackDone
  /\ Len(batch) = 2
  /\ batch[1].fsevent_flags = MetaAndModified
  /\ Cardinality(SetEntries(batch[2].fsevent_flags)) = 5
  /\ Len(fired) = 7

\* C6: a raw event gets a fire call with action UNKNOWN exactly when none of
\* its flag bits is in the table, that call is then its only one, and every
\* raw event gets at least one fire call.
C6_UnknownIffNoTableBit ==
  CallbackDone =>
    \A i \in 1..Len(batch) :
      LET set == SetEntries(batch[i].fsevent_flags)
          fires == FiresOf(i)
      IN  /\ Len(fires) >= 1
          /\ (\E j \in 1..Len(fires) : fires[j].action = "UNKNOWN") <=> set = {}
          /\ set = {} => Len(fires) = 1

C6_Witness ==
  /\ CallbackDone
  /\ Len(batch) = 2
  /\ batch[1].fsevent_flags = kFSEventStreamEventFlagItemIsFile
  /\ batch[2].fsevent_flags = kFSEventStreamEventFlagItemCreated
  /\ Actions(fired) = <<"UNKNOWN", "CREATED">>

\* The scenario of C7: one non-recursive subscription on /tmp with mask 0 and
\* a batch of one raw event, /tmp/a.txt created.
TmpCreatedScenario(subPath) ==
  /\ CallbackDone
  /\ subscriptions_ = <<createSubscriptionContext(subPath, FALSE, 0)>>
  /\ Len(batch) = 1
  /\ batch[1].path = pTmpFile
  /\ batch[1].fsevent_flags = kFSEventStreamEventFlagItemCreated

\* C7 as stated: in the scenario there is exactly one fire call, its action is
\* CREATED, shouldFire is true and the subscriber is invoked exactly once.
C7_TmpCreatedInvokesOnce ==
  TmpCreatedScenario(pTmp) =>
    /\ Actions(fired) = <<"CREATED">>
    /\ shouldFire(subscriptions_[1], fired[1])
    /\ Cardinality(matched) = 1

\* C7 as amended: in the scenario there is exactly one fire call, its action
\* is CREATED, but shouldFire is false (the '*' of /tmp* does not match the
\* separator of /tmp/a.txt) and the subscriber is not invoked; with the
\* subscription path /tmp/ shouldFire is true and the subscriber is invoked
\* exactly once.
C7_TmpCreatedNeedsSeparator ==
  /\ TmpCreatedScenario(pTmp) =>
       /\ Actions(fired) = <<"CREATED">>
       /\ ~shouldFire(subscriptions_[1], fired[1])
       /\ matched = {}
  /\ TmpCreatedScenario(pTmpSlash) =>
       /\ Actions(fired) = <<"CREATED">>
       /\ shouldFire(subscriptions_[1], fired[1])
       /\ matched = {<<1, 1>>}

C7_Witness ==
  /\ TmpCreatedScenario(pTmp)
  /\ Len(fired) = 1
  /\ matched = {}

\* C8: for a recursive subscription with mask 0 the subscriber is reached
\* (shouldFire is true) exactly when the subscription path is a prefix of the
\* event path at offset zero.
C8_RecursiveIffPrefix ==
  CallbackDone =>
    \A i \in 1..Len(fired), j \in 1..Len(subscriptions_) :
      (subscriptions_[j].recursive /\ subscriptions_[j].mask = 0) =>
        (<<i, j>> \in matched <=>
           IsPrefix(subscriptions_[j].path, fired[i].path))

C8_Witness ==
  /\ CallbackDone
  /\ subscriptions_ = <<createSubscriptionContext(<<"a">>, TRUE, 0)>>
  /\ Len(fired) = 1
  /\ fired[1].path = <<"/", "a">>
  /\ matched = {}

\* The path test of shouldFire alone.
PathTest(sc, ec) ==
  IF sc.recursive THEN IsPrefix(sc.path, ec.path)
  ELSE fnmatch(sc.path \o <<"*">>, ec.path) = FNM_MATCH

\* C9: with a nonzero mask that shares no bit with the event's flags
\* shouldFire is false, whatever the path test says and whether the
\* subscription is recursive or not; with mask 0 the path test alone decides.
C9_MaskRejects ==
  CallbackDone =>
    \A i \in 1..Len(fired), j \in 1..Len(subscriptions_) :
      LET sc == subscriptions_[j]
          ec == fired[i]
      IN  /\ (sc.mask # 0 /\ BitAnd(ec.fsevent_flags, sc.mask) = 0) =>
               <<i, j>> \notin matched
          /\ sc.mask = 0 => (<<i, j>> \in matched <=> PathTest(sc, ec))

C9_Witness ==
  /\ CallbackDone
  /\ Len(fired) = 1
  /\ subscriptions_[1].mask = RemovedOrCreated
  /\ fired[1].fsevent_flags = kFSEventStreamEventFlagItemModified
  /\ PathTest(subscriptions_[1], fired[1])
  /\ matched = {}

-----------------------------------------------------------------------------
(* Claims about symlink resolution *)

\* C10: on the chain /A -> /B -> /C -> /D -> /E -> /F -> /T one configure()
\* takes a subscription on /A to /F, not /T, records /A as its original link
\* path, and watches /F (the watched paths are the subscriptions' paths).
C10_FiveHops ==
  [][(lastOp' = "configure" /\ fs = FsChain) =>
       \A i \in 1..Len(subscriptions_) :
         subscriptions_[i].path = <<"/", "A">> =>
           /\ subscriptions_'[i].path = <<"/", "F">>
           /\ subscriptions_'[i].link_ = <<"/", "A">>
           /\ <<"/", "F">> \in paths_'
           /\ paths_' = {subscriptions_'[k].path :
                           k \in 1..Len(subscriptions_')}]_vars

C10_Witness ==
  /\ lastOp = "configure"
  /\ fs = FsChain
  /\ Len(subscriptions_) = 1
  /\ subscriptions_[1].path = <<"/", "F">>
  /\ subscriptions_[1].link_ = <<"/", "A">>
  /\ paths_ = {<<"/", "F">>}

-----------------------------------------------------------------------------
(* C11: link_ is written at most once *)

\* C11: over any sequence of configure() calls and any change of the
\* filesystem's links between them, a subscription's link_ never changes once
\* it is non-empty, and the one write that makes it non-empty stores the path
\* the subscription had when that configure() began, before any link was
\* followed. No other operation writes link_.
C11_LinkWrittenOnce ==
  [][ (lastOp' = "configure" =>
         /\ Len(subscriptions_') = Len(subscriptions_)
         /\ \A i \in 1..Len(subscriptions_) :
              LET old == subscriptions_[i]
                  new == subscriptions_'[i]
              IN  /\ (old.link_ # <<>> => new.link_ = old.link_)
                  /\ (old.link_ = <<>> /\ new.link_ # <<>> =>
                        new.link_ = old.path /\ is_symlink(fs, old.path))
                  /\ (old.link_ = <<>> /\ new.link_ = <<>> =>
                        new.path = old.path))
      /\ (lastOp' \notin {"configure", "removeSubscription"} =>
            \A i \in 1..Len(subscriptions_) :
              subscriptions_'[i] = subscriptions_[i])
    ]_vars

\* /l was followed to /t by one configure(), /t became a link, and a later
\* configure() followed it to /y: link_ still holds /l.
C11_Witness ==
  /\ lastOp = "configure"
  /\ fs = FsRelinked
  /\ \E i \in 1..Len(subscriptions_) :
       /\ subscriptions_[i].link_ = <<"/", "l">>
       /\ subscriptions_[i].path = <<"/", "y">>

-----------------------------------------------------------------------------
(* C12: a failing probe ends the resolution *)

\* A probe of p fails: p is missing, or p is a link whose contents cannot be
\* read.
ProbeFails(f, p) == p \notin DOMAIN f \/ f[p].kind = "unreadable_link"

\* The resolution C12 describes: the loop of configure(), except that a hop
\* whose is-symlink or read-link probe fails leaves the context as it is.
RECURSIVE StopAtFailedProbe(_, _, _)
StopAtFailedProbe(f, sub, link_depth) ==
  IF link_depth < FSEVENTS_MAX_SYMLINK_DEPTH /\ ~ProbeFails(f, sub.path)
       /\ is_symlink(f, sub.path) THEN
    LET link_ == IF Len(sub.link_) = 0 THEN sub.path ELSE sub.link_
        read == read_symlink(f, sub.path)
        source_path == IF ~is_absolute(read)
                         THEN PathAppend(parent_path(link_), read)
                         ELSE read
    IN  StopAtFailedProbe(f, [sub EXCEPT !.link_ = link_, !.path = source_path],
                          link_depth + 1)
  ELSE sub

\* C12: when a probe fails at some hop of a subscription's resolution,
\* configure() leaves the subscription's path at the value it had before that
\* hop, and that path is in paths_.
C12_FailedProbeKeepsPath ==
  [][lastOp' = "configure" =>
       \A i \in 1..Len(subscriptions_) :
         LET kept == StopAtFailedProbe(fs, subscriptions_[i], 0).path
         IN  ProbeFails(fs, kept) =>
               /\ subscriptions_'[i].path = kept
               /\ kept \in paths_'
    ]_vars

-----------------------------------------------------------------------------
(* C13: tearDown() detaches the publisher *)

\* C13: tearDown() leaves stream_ null, stream_started_ false and run_loop_
\* null; from then on, as long as no run() has captured a loop, configure()
\* and restart() create no native stream, make no native call on a stream and
\* leave the three fields as they are.
C13_TearDownDetaches ==
  [][ /\ (lastOp' = "tearDown" =>
            /\ stream_' = nullptr
            /\ ~stream_started_'
            /\ run_loop_' = nullptr
            /\ LiveStreams(native') = {})
      /\ (run_loop_ = nullptr /\ lastOp' \in {"configure", "restart"} =>
            /\ native' = native
            /\ calls' = <<>>
            /\ stream_' = nullptr
            /\ ~stream_started_'
            /\ run_loop_' = nullptr)
      /\ (run_loop_ = nullptr /\ run_loop_' # nullptr => lastOp' = "run")
    ]_vars

\* A configure() over a non-empty path set after a tearDown() released the
\* first stream: no second stream was created.
C13_Witness ==
  /\ lastOp = "configure"
  /\ paths_ # {}
  /\ run_loop_ = nullptr
  /\ stream_ = nullptr
  /\ Len(native) = 1
  /\ native[1].releases = 1

-----------------------------------------------------------------------------
(* C14: flush() without a started stream *)

\* C14: flush() changes no field of the publisher, no native stream and no
\* fire call; with stream_ null or stream_started_ false it makes no native
\* call at all, and the one call it can make is a flush of the stream that
\* exists and is started.
C14_FlushNoOp ==
  [][lastOp' = "flush" =>
       /\ UNCHANGED <<stream_, stream_started_, run_loop_, paths_, native,
                      runPc, subscriptions_, fired, matched>>
       /\ (stream_ = nullptr \/ ~stream_started_ => calls' = <<>>)
       /\ (calls' # <<>> =>
             /\ stream_ # nullptr /\ stream_started_
             /\ calls' \in {<< <<"FSEventStreamFlushSync", stream_>> >>,
                            << <<"FSEventStreamFlushAsync", stream_>> >>})
    ]_vars

\* flush() returned without a native call on a stream that was created but
\* whose start failed.
C14_Witness ==
  /\ lastOp = "flush"
  /\ stream_ # nullptr
  /\ ~stream_started_
  /\ calls = <<>>

-----------------------------------------------------------------------------
(* C16: what ends a blocked run() *)

\* The step is a configure() over a non-empty path set, made while run() is
\* blocked in CFRunLoopRun.
ConfigureWhileBlocked ==
  /\ runPc = "CFRunLoopRun"
  /\ lastOp' = "configure"
  /\ paths_' # {}

\* C16 as stated: a configure() over a non-empty path set made while run()
\* is blocked does not ask the hosted loop to stop, and run() stays blocked.
C16_ConfigureKeepsRunBlocked ==
  [][ConfigureWhileBlocked =>
       /\ <<"CFRunLoopStop", run_loop_>> \notin Range(calls')
       /\ runPc' = "CFRunLoopRun"
    ]_vars

\* C16, amended: run() stays blocked until an operation that goes through
\* stop() is made: stop(), end(), tearDown(), and also restart() and a
\* configure() over a non-empty path set, whose restart() begins with stop().
\* Such a configure() releases the old stream, asks the hosted loop to stop,
\* so that run() returns, and leaves the new stream, if one was created,
\* scheduled on the loop for the next run().
C16_ConfigureStopsLoop ==
  [][ /\ (ConfigureWhileBlocked =>
            /\ run_loop_ # nullptr
            /\ <<"CFRunLoopStop", run_loop_>> \in Range(calls')
            /\ runPc' = "stopped"
            /\ stream_ # nullptr => native'[stream_].releases = 1
            /\ stream_' # nullptr =>
                 /\ stream_' # stream_
                 /\ native'[stream_'].scheduled)
      /\ (runPc = "CFRunLoopRun" /\ runPc' # "CFRunLoopRun" =>
            /\ runPc' = "stopped"
            /\ lastOp' \in {"stop", "end", "tearDown", "restart", "configure"}
            /\ <<"CFRunLoopStop", run_loop_>> \in Range(calls'))
      /\ (runPc = "CFRunLoopRun"
            /\ lastOp' \in {"flush", "addSubscription", "removeSubscription"}
            => runPc' = "CFRunLoopRun")
      /\ (runPc = "CFRunLoopRun" /\ lastOp' = "configure" /\ paths_' = {}
            => runPc' = "CFRunLoopRun")
    ]_vars

\* The first stream was live while run() blocked, and the configure() that
\* released it and started the second one also stopped the loop.
C16_Witness ==
  /\ lastOp = "configure"
  /\ runPc = "stopped"
  /\ Len(native) = 2
  /\ stream_ = 2
  /\ stream_started_
  /\ <<"FSEventStreamRelease", 1>> \in Range(calls)
  /\ <<"CFRunLoopStop", run_loop_>> \in Range(calls)

-----------------------------------------------------------------------------
(* C17: failure of FSEventStreamCreate or FSEventStreamStart, and recovery *)

\* The last operation attempted a stream and the creation or the start failed.
CreateOrStartFailed ==
  \/ <<"FSEventStreamCreate", nullptr>> \in Range(calls)
  \/ \E h \in 1..Len(native) :
       /\ <<"FSEventStreamStart", h>> \in Range(calls)
       /\ ~native[h].started

\* C17: after a restart() whose creation or start failed, stream_started_
\* is false and isStreamRunning() is false; no operation but configure(),
\* restart() and the first run() creates a stream, so nothing retries on its
\* own; a configure() whose creation and start succeed ends with
\* stream_started_ true and its stream the only live one, the stream left
\* over from the failed attempt released exactly once.
C17_FailureThenRecovery ==
  [][ /\ (CreateOrStartFailed' =>
            /\ ~stream_started_'
            /\ ~isStreamRunning')
      /\ (native' # native =>
            lastOp' \in {"configure", "restart", "run", "stop", "end",
                         "tearDown"})
      /\ (Len(native') > Len(native) =>
            lastOp' \in {"configure", "restart", "run"})
      /\ (/\ lastOp' = "configure"
          /\ Len(native') > Len(native)
          /\ native'[Len(native')].started
          => /\ stream_started_'
             /\ stream_' = Len(native')
             /\ LiveStreams(native') = {stream_'}
             /\ \A h \in 1..Len(native) : native'[h].releases = 1
             /\ stream_ # nullptr =>
                  /\ native[stream_].releases = 0
                  /\ <<"FSEventStreamRelease", stream_>> \in Range(calls'))
    ]_vars

\* FSEventStreamStart has just failed: the stream exists, is scheduled and is
\* not started.
C17_Witness ==
  /\ lastOp \in {"restart", "configure"}
  /\ CreateOrStartFailed
  /\ stream_ # nullptr
  /\ native[stream_].scheduled
  /\ ~stream_started_
  /\ ~isStreamRunning

-----------------------------------------------------------------------------
(* C18: configure() twice *)

\* C18: a configure() that follows a configure() directly, the subscriptions
\* and the filesystem being the same, leaves every subscription and paths_ as
\* the first left them, so that no subscription is ever taken more than
\* FSEVENTS_MAX_SYMLINK_DEPTH hops from the path it was created with.
C18_ConfigureIdempotent ==
  [][lastOp = "configure" /\ lastOp' = "configure" =>
       /\ subscriptions_' = subscriptions_
       /\ paths_' = paths_
    ]_vars

-----------------------------------------------------------------------------
(* C19: relative link targets *)

\* Where the link at p points: a relative target is taken from the directory
\* that holds p.
LinkTarget(f, p) ==
  IF is_absolute(f[p].target) THEN f[p].target
  ELSE PathAppend(parent_path(p), f[p].target)

\* The chain that starts at p ends at a file or directory within hops links,
\* every link of it readable.
RECURSIVE ChainEnds(_, _, _)
ChainEnds(f, p, hops) ==
  /\ p \in DOMAIN f
  /\ f[p].kind # "unreadable_link"
  /\ f[p].kind = "link" => hops > 0 /\ ChainEnds(f, LinkTarget(f, p), hops - 1)

\* The file or directory such a chain ends at.
RECURSIVE ChainTarget(_, _)
ChainTarget(f, p) ==
  IF f[p].kind = "link" THEN ChainTarget(f, LinkTarget(f, p)) ELSE p

\* C19: for a subscription created on a path whose chain of links ends within
\* FSEVENTS_MAX_SYMLINK_DEPTH hops without a failing probe, configure() leaves
\* the subscription's path at the end of the chain, each relative target being
\* taken from the directory of the link it was read from.
C19_RelativeTargetsAnchored ==
  [][lastOp' = "configure" =>
       \A i \in 1..Len(subscriptions_) :
         LET sub == subscriptions_[i]
         IN  sub.link_ = <<>>
               /\ ChainEnds(fs, sub.path, FSEVENTS_MAX_SYMLINK_DEPTH)
               => subscriptions_'[i].path = ChainTarget(fs, sub.path)
    ]_vars

-----------------------------------------------------------------------------
(* C20: restart() without paths or without a loop *)

\* C20: restart() with paths_ empty or run_loop_ null changes none of stream_,
\* stream_started_, run_loop_, paths_ and makes no native call; in every state
\* a non-null stream_ comes with a non-null run_loop_, and while no loop has
\* been captured no native stream exists: only run() creates one from there.
C20_RestartNeedsPathsAndLoop ==
  /\ [](stream_ # nullptr => run_loop_ # nullptr)
  /\ [](run_loop_ = nullptr => LiveStreams(native) = {})
  /\ [][ /\ (lastOp' = "restart" /\ (paths_ = {} \/ run_loop_ = nullptr) =>
               /\ UNCHANGED <<stream_, stream_started_, run_loop_, paths_,
                              native, runPc>>
               /\ calls' = <<>>)
         /\ (run_loop_ = nullptr /\ native' # native => lastOp' = "run")
       ]_vars

\* restart() returned without a native call although paths are configured:
\* no run() has captured a loop yet and no stream was ever created.
C20_Witness ==
  /\ lastOp = "restart"
  /\ paths_ # {}
  /\ run_loop_ = nullptr
  /\ native = <<>>
  /\ stream_ = nullptr
  /\ calls = <<>>

-----------------------------------------------------------------------------
(* C15: lifecycle calls that overlap *)

\* C15: no lock orders the lifecycle calls, and a native stream is used after
\* its release or released twice in some interleaving of two of them; it
\* happens in no other way: whenever a call is given a released stream, a
\* statement of one call ran while the other thread was inside a call.
C15_MisuseOnlyWhenOverlapped ==
  UsedAfterRelease # {} => overlapped

\* Two stop() calls overlap and both reach line 113: stream 1 is released a
\* second time.
C15_Witness ==
  /\ overlapped
  /\ <<"FSEventStreamRelease", 1>> \in UsedAfterRelease
  /\ native[1].releases = 2
  /\ \A t \in Threads : threadPc[t].op \in {"stop", "tearDown"}

====
